---- MODULE Spec2Model ----
(***************************************************************************)
(* One EventProcessor of the event-hubs package, its PumpManager, the      *)
(* PartitionPumps it creates, and the ownership store and broker it talks  *)
(* to.  JavaScript runs each piece of code between two awaits to           *)
(* completion, so every action below is one such piece: the code that runs *)
(* when a call is made or when an awaited promise settles, up to the next  *)
(* await.                                                                  *)
(***************************************************************************)
EXTENDS Integers, Sequences, FiniteSets, TLC

\* ------------------------------------------------------------------ bounds
MaxStarts == 2          \* calls of EventProcessor.start() that launch a loop
MaxStops == 1           \* calls of EventProcessor.stop()
MaxTicks == 2           \* iterations of the control loop, over all loops
MaxPumps == 2           \* PartitionPump objects constructed
MaxOtherWrites == 1     \* writes of another processor to the ownership store
PumpStops == 2          \* calls of EventProcessor.stop() in the runs with one pump
HealthyTicks == 2       \* iterations of the control loop in the runs with a healthy broker
MaxEvents == 3          \* events of the partition, in the runs that follow the reader
MaxSequenceNumber == 1  \* the highest sequenceNumber another processor checkpoints
MaxStartsIgnored == 1   \* calls of EventProcessor.start() on a running processor
FleetPartitions == 2    \* partitions of the event hub, in the runs with a peer processor
FleetTicks == 3         \* iterations of the control loop in the runs with a peer processor
FleetOtherTicks == 2    \* claims the peer processor commits
SurvivorPartitions == 2 \* partitions of the event hub, in the runs of a surviving processor
SurvivorTicks == 2      \* iterations of the control loop of a surviving processor
SurvivorOtherTicks == 1 \* claims the peer commits before it stops for good
LonePartitions == 2     \* partitions of the event hub, in the runs of a lone processor
BalancePartitions == 5  \* the most partitions of the event hub, in the first ticks on every ownership list
RecoverTicks == 2       \* iterations of the control loop, in the runs of a processor that keeps running

\* ------------------------------------------------------------------ values
SelfId == "self"
OtherId == "other"

EventHubException == "EventHubException"
OwnershipLost == "OwnershipLost"
Shutdown == "Shutdown"

\* The partition ids of an event hub with n partitions.
PartitionIds == <<"0", "1", "2", "3", "4", "5">>
PartitionIdsOf(n) == {PartitionIds[i] : i \in 1..n}

\* An absent sequenceNumber (undefined).
NoSequenceNumber == -1

\* An absent offset (undefined), and the broker's offset of the event with
\* sequenceNumber n.
NoOffset == -1
OffsetOf(n) == IF n = NoSequenceNumber THEN NoOffset ELSE 100 + n

\* A PartitionOwnership record of the store; eTag 0 is "no eTag".
NoOwnership == [ownerId |-> "", eTag |-> 0, active |-> FALSE,
                sequenceNumber |-> NoSequenceNumber, offset |-> NoOffset]
NoRequest == [ownerId |-> "", partitionId |-> "", eTag |-> 0, ownerLevel |-> 0,
              sequenceNumber |-> NoSequenceNumber, offset |-> NoOffset]

\* EventPosition values: where a reader is opened.
NoPosition == [kind |-> "undefined", sequenceNumber |-> NoSequenceNumber]
Earliest == [kind |-> "earliest", sequenceNumber |-> NoSequenceNumber]
Configured == [kind |-> "fromEnqueuedTime", sequenceNumber |-> NoSequenceNumber]
FromSequenceNumber(n) == [kind |-> "fromSequenceNumber", sequenceNumber |-> n]

\* EventProcessorOptions, by the field the claims are about.
Options == [initialEventPosition : {NoPosition, Configured}]

\* receiveBatch is called with maxBatchSize || 1.
DefaultMaxBatchSize == 1

\* Errors, by the fields the pump reads: typeof err, err.retryable, err.name.
\* A missing retryable field is falsy and is written FALSE.
NoError == [name |-> "none", retryable |-> FALSE, isObject |-> TRUE]
Timeout == [name |-> "Timeout", retryable |-> TRUE, isObject |-> TRUE]
Unauthorized == [name |-> "Unauthorized", retryable |-> FALSE, isObject |-> TRUE]
ReceiverDisconnected(r) ==
    [name |-> "ReceiverDisconnectedError", retryable |-> r, isObject |-> TRUE]
ReceiveErrors ==
    {Timeout, Unauthorized, ReceiverDisconnected(FALSE), ReceiverDisconnected(TRUE)}
\* The error receiveBatch rejects with when its abortSignal fires.
AbortError == [name |-> "AbortError", retryable |-> FALSE, isObject |-> TRUE]
\* What user code throws: an Error, or a value that is not an object.
UserErrors == {[name |-> "Error", retryable |-> FALSE, isObject |-> TRUE],
               [name |-> "string", retryable |-> FALSE, isObject |-> FALSE]}

\* The optional methods of the PartitionProcessor the user factory returns.
Handlers == [initialize : BOOLEAN, close : BOOLEAN]

VARIABLES
    limit,            \* what is fixed for the run: its bounds and the event hub's partition ids
    partitionProcessorFactory,  \* the optional methods of the handlers the user factory returns
    processorOptions, \* EventProcessor._processorOptions
    isRunning,        \* EventProcessor._isRunning
    abortController,  \* EventProcessor._abortController: 0, or the loop whose signal it holds
    loopTask,         \* EventProcessor._loopTask: 0, or a loop
    startsIgnored,    \* "Attempted to start an already running EventProcessor" lines logged
    loops,            \* the _runLoop tasks launched so far
    stops,            \* the EventProcessor.stop() calls made so far, each with _isRunning as it
                      \* found it and the pumps its removeAllPumps stops
    ticks,            \* loop iterations begun so far
    ownership,        \* the store: partitionId -> PartitionOwnership
    eTagCounter,      \* the store's last eTag
    otherWrites,      \* writes of the other processor so far
    pumpOf,           \* PumpManager's index: partitionId -> pump (0: none)
    lock,             \* the loop inside createPump (0: none)
    pumps,            \* the PartitionPump objects constructed so far
    calls             \* the PartitionPump.stop() calls not yet consumed by their caller

vars == <<limit, partitionProcessorFactory, processorOptions, isRunning, abortController,
          loopTask, startsIgnored, loops, stops, ticks, ownership, eTagCounter, otherWrites, pumpOf, lock,
          pumps, calls>>

procVars == <<limit, partitionProcessorFactory, processorOptions, isRunning, abortController,
              loopTask, startsIgnored>>
storeVars == <<ownership, eTagCounter, otherWrites>>

\* What getPartitionIds returns: the partition ids of the event hub.
Partitions == limit.partitions

\* The map of a tick before listOwnership has filled it.
NoSnapshot == [p \in Partitions |-> NoOwnership]

\* ------------------------------------------------------------ PartitionPump

\* new PartitionPump(eventHubClient, partitionContext, partitionProcessor, options).
\* position and cursor are the reader's: where it was opened and the
\* sequenceNumber of the next event it delivers; batch is the batch handed to
\* the processEvents call in flight, last the highest sequenceNumber handed to
\* processEvents so far.
NewPump(p, h, options) ==
    [partitionId |-> p, handler |-> h, options |-> options, pc |-> "new",
     isReceiving |-> FALSE, receiver |-> "none", aborted |-> FALSE, err |-> NoError,
     initialize |-> "notCalled", closes |-> 0,
     position |-> NoPosition, cursor |-> 0, batch |-> <<>>, last |-> NoSequenceNumber]

\* The broker: the sequenceNumber of the first event a reader opened at a
\* position delivers.
FirstSequenceNumber(position) ==
    IF position.kind = "fromSequenceNumber" THEN position.sequenceNumber + 1 ELSE 0

\* createConsumer(..., initialEventPosition || EventPosition.earliest(), ...)
createConsumer(q) ==
    LET position == IF q.options.initialEventPosition # NoPosition
                    THEN q.options.initialEventPosition ELSE Earliest
    IN  [q EXCEPT !.receiver = "open", !.position = position,
                  !.cursor = FirstSequenceNumber(position)]

\* A receive loop that creates its consumer again on every iteration.
ReceiveLoopReopen(q) ==
    IF q.isReceiving
    THEN [createConsumer(q) EXCEPT !.pc = "receiveBatch", !.err = NoError, !.batch = <<>>]
    ELSE [q EXCEPT !.pc = "done", !.err = NoError, !.batch = <<>>]

\* The head of the while loop of _receiveEvents: another receiveBatch, or the end.
ReceiveLoop(q) ==
    IF q.isReceiving
    THEN [q EXCEPT !.pc = "receiveBatch", !.err = NoError, !.batch = <<>>]
    ELSE [q EXCEPT !.pc = "done", !.err = NoError, !.batch = <<>>]

\* _receiveEvents up to its first await: the consumer is created, whatever
\* isReceiving is, and the loop is entered.
receiveEvents(q) == ReceiveLoop(createConsumer(q))

\* start() that does not await initialize().
startWithoutAwait(q) ==
    receiveEvents([q EXCEPT !.isReceiving = TRUE,
                            !.initialize = IF q.handler.initialize THEN "running"
                                           ELSE "notCalled"])

\* PartitionPump.start() up to its first await.
start(q) ==
    LET q1 == [q EXCEPT !.isReceiving = TRUE] IN
    IF q.handler.initialize
    THEN [q1 EXCEPT !.pc = "initialize", !.initialize = "running"]
    ELSE receiveEvents(q1)

\* A catch block that forwards every error to processError.
CatchErrorAlways(q, e) == [q EXCEPT !.pc = "processError", !.err = e, !.batch = <<>>]

\* The catch block of _receiveEvents up to the processError call.
CatchError(q, e) ==
    IF ~q.isReceiving
    THEN [q EXCEPT !.pc = "done", !.batch = <<>>]
    ELSE [q EXCEPT !.pc = "processError", !.err = e, !.batch = <<>>]

\* stop() that returns once the reader is closed, without the handler's close.
AfterReceiverCloseOnly(q, reason) == [pump |-> [q EXCEPT !.aborted = TRUE], pc |-> "resolved"]

\* PartitionPump.stop() after the reader is closed: abort, then the handler's close.
AfterReceiverClose(q, reason) ==
    LET q1 == [q EXCEPT !.aborted = TRUE] IN
    IF q.handler.close
    THEN [pump |-> [q1 EXCEPT !.closes = @ + 1], pc |-> "close"]
    ELSE [pump |-> q1, pc |-> "resolved"]

\* stop() that leaves _isReceiving as it is.
stopStillReceiving(q, reason) ==
    IF q.receiver # "none"
    THEN [pump |-> q, pc |-> "receiver.close"]
    ELSE AfterReceiverClose(q, reason)

\* PartitionPump.stop(reason) up to its first await.
stop(q, reason) ==
    LET q1 == [q EXCEPT !.isReceiving = FALSE] IN
    IF q1.receiver # "none"
    THEN [pump |-> q1, pc |-> "receiver.close"]
    ELSE AfterReceiverClose(q1, reason)

\* The reason _receiveEvents stops the pump with.
StopReason(e) ==
    IF e.name = "ReceiverDisconnectedError" THEN OwnershipLost ELSE EventHubException

\* A classification that stops the pump on every error.
IsFatalAlways(e) == TRUE

\* Whether _receiveEvents stops the pump after processError.
IsFatal(e) == ~e.isObject \/ ~e.retryable

Call(k, reason, pc, kind, id) ==
    [pump |-> k, reason |-> reason, pc |-> pc, by |-> [kind |-> kind, id |-> id]]

PumpIds == 1..Len(pumps)

\* start() after initialize() has returned or thrown: the catch swallows the
\* error, and _receiveEvents is called either way.
AfterInitialize(q, outcome) == receiveEvents([q EXCEPT !.initialize = "done"])

\* initialize() returns or throws.
InitializeDone ==
    \E k \in PumpIds :
      /\ pumps[k].pc = "initialize"
      /\ \E outcome \in {"returned", "threw"} :
           pumps' = [pumps EXCEPT ![k] = AfterInitialize(@, outcome)]
      /\ UNCHANGED <<procVars, loops, stops, ticks, storeVars, pumpOf, lock, calls>>

\* The sequenceNumbers of the n events after the reader's cursor.
NextEvents(q, n) == [i \in 1..n |-> q.cursor + i - 1]

\* processEvents(receivedEvents) is called.
Dispatch(q, receivedEvents) ==
    [q EXCEPT !.pc = "processEvents", !.batch = receivedEvents,
              !.last = IF receivedEvents = <<>> THEN q.last
                       ELSE receivedEvents[Len(receivedEvents)]]

\* A receive loop that hands every batch to processEvents.
AfterReceiveDispatch(q, receivedEvents) == Dispatch(q, receivedEvents)

\* _receiveEvents after receiveBatch has resolved: the test of _isReceiving,
\* then processEvents.
AfterReceive(q, receivedEvents) ==
    IF ~q.isReceiving
    THEN [q EXCEPT !.pc = "done"]
    ELSE Dispatch(q, receivedEvents)

\* What a receiveBatch call of pump q can reject with: a broker error, or the
\* abort of the pump's signal.
ReceiveErrorsOf(q) == ReceiveErrors \cup (IF q.aborted THEN {AbortError} ELSE {})

\* receiveBatch resolves while the pump is receiving, with the next events of
\* the partition (none after maxWaitTimeInSeconds): processEvents is called.
ReceiveBatchDone ==
    \E k \in PumpIds :
      /\ pumps[k].pc = "receiveBatch"
      /\ pumps[k].isReceiving
      /\ \E n \in 0..DefaultMaxBatchSize :
           /\ pumps[k].cursor + n <= limit.events
           /\ pumps' = [pumps EXCEPT ![k] =
                 AfterReceive([@ EXCEPT !.cursor = @ + n], NextEvents(pumps[k], n))]
      /\ UNCHANGED <<procVars, loops, stops, ticks, storeVars, pumpOf, lock, calls>>

\* receiveBatch rejects while the pump is receiving: processError is called.
ReceiveBatchFail ==
    \E k \in PumpIds :
      /\ pumps[k].pc = "receiveBatch"
      /\ pumps[k].isReceiving
      /\ \E e \in ReceiveErrorsOf(pumps[k]) :
           pumps' = [pumps EXCEPT ![k] = CatchError(@, e)]
      /\ UNCHANGED <<procVars, loops, stops, ticks, storeVars, pumpOf, lock, calls>>

\* receiveBatch settles (a batch, an error, the abort) after stop(): the task ends.
ReceiveAfterStop ==
    \E k \in PumpIds :
      /\ pumps[k].pc = "receiveBatch"
      /\ ~pumps[k].isReceiving
      /\ \/ pumps' = [pumps EXCEPT ![k] = AfterReceive(@, <<>>)]
         \/ \E e \in ReceiveErrorsOf(pumps[k]) :
              pumps' = [pumps EXCEPT ![k] = CatchError(@, e)]
      /\ UNCHANGED <<procVars, loops, stops, ticks, storeVars, pumpOf, lock, calls>>

\* processEvents returns.
ProcessEventsReturn ==
    \E k \in PumpIds :
      /\ pumps[k].pc = "processEvents"
      /\ pumps' = [pumps EXCEPT ![k] = ReceiveLoop(@)]
      /\ UNCHANGED <<procVars, loops, stops, ticks, storeVars, pumpOf, lock, calls>>

\* processEvents throws.
ProcessEventsThrow ==
    \E k \in PumpIds :
      /\ pumps[k].pc = "processEvents"
      /\ \E e \in UserErrors :
           pumps' = [pumps EXCEPT ![k] = CatchError(@, e)]
      /\ UNCHANGED <<procVars, loops, stops, ticks, storeVars, pumpOf, lock, calls>>

\* processError returns or throws (a throw is logged): the error is classified.
ProcessErrorDone ==
    \E k \in PumpIds :
      /\ pumps[k].pc = "processError"
      /\ IF IsFatal(pumps[k].err)
         THEN LET r == stop(pumps[k], StopReason(pumps[k].err)) IN
              /\ pumps' = [pumps EXCEPT ![k] = [r.pump EXCEPT !.pc = "stop", !.err = NoError]]
              /\ calls' = calls \cup {Call(k, StopReason(pumps[k].err), r.pc, "pump", k)}
         ELSE /\ pumps' = [pumps EXCEPT ![k] = ReceiveLoop(@)]
              /\ calls' = calls
      /\ UNCHANGED <<procVars, loops, stops, ticks, storeVars, pumpOf, lock>>

\* The pump's own stop() settles: _receiveEvents returns, or logs and leaves the loop.
OwnStopDone ==
    \E k \in PumpIds :
      /\ pumps[k].pc = "stop"
      /\ \E c \in calls :
           /\ c.pump = k /\ c.by.kind = "pump"
           /\ c.pc \in {"resolved", "rejected"}
           /\ calls' = calls \ {c}
      /\ pumps' = [pumps EXCEPT ![k] = [@ EXCEPT !.pc = "done"]]
      /\ UNCHANGED <<procVars, loops, stops, ticks, storeVars, pumpOf, lock>>

\* receiver.close() resolves inside a stop() call.
ReceiverCloseDone ==
    \E c \in calls :
      /\ c.pc = "receiver.close"
      /\ LET r == AfterReceiverClose([pumps[c.pump] EXCEPT !.receiver = "closed"], c.reason) IN
           /\ pumps' = [pumps EXCEPT ![c.pump] = r.pump]
           /\ calls' = (calls \ {c}) \cup {[c EXCEPT !.pc = r.pc]}
      /\ UNCHANGED <<procVars, loops, stops, ticks, storeVars, pumpOf, lock>>

\* receiver.close() rejects inside a stop() call: stop() logs and rethrows.
ReceiverCloseFail ==
    \E c \in calls :
      /\ c.pc = "receiver.close"
      /\ calls' = (calls \ {c}) \cup {[c EXCEPT !.pc = "rejected"]}
      /\ UNCHANGED <<procVars, loops, stops, ticks, storeVars, pumpOf, lock, pumps>>

\* The handler's close(reason) returns or throws inside a stop() call.
HandlerCloseDone ==
    \E c \in calls :
      /\ c.pc = "close"
      /\ \E pc \in {"resolved", "rejected"} :
           calls' = (calls \ {c}) \cup {[c EXCEPT !.pc = pc]}
      /\ UNCHANGED <<procVars, loops, stops, ticks, storeVars, pumpOf, lock, pumps>>

\* The stop() calls made on the pumps directly, through PartitionPump's public
\* interface.
CallerStops == {c \in calls : c.by.kind = "caller"}

\* A caller constructs a PartitionPump and calls start().
PumpStartCalled ==
    \E p \in Partitions :
      /\ Len(pumps) < limit.pumps
      /\ pumps' = Append(pumps, start(NewPump(p, partitionProcessorFactory,
                                              [initialEventPosition |-> NoPosition])))
      /\ UNCHANGED <<procVars, loops, stops, ticks, storeVars, pumpOf, lock, calls>>

\* A caller calls stop(Shutdown) on a pump.
PumpStopCalled ==
    \E k \in PumpIds :
      /\ Cardinality(CallerStops) < limit.stops
      /\ LET r == stop(pumps[k], Shutdown) IN
           /\ pumps' = [pumps EXCEPT ![k] = r.pump]
           /\ calls' = calls \cup
                 {Call(k, Shutdown, r.pc, "caller", Cardinality(CallerStops) + 1)}
      /\ UNCHANGED <<procVars, loops, stops, ticks, storeVars, pumpOf, lock>>

\* _receiveEvents when createConsumer throws (the connection is closed): the
\* task rejects before its loop, and start(), which does not await it, goes on.
receiveEventsThrows(q) == [q EXCEPT !.pc = "done"]

\* A caller constructs a PartitionPump whose handler has no initialize and calls
\* start(); createConsumer throws.
PumpStartCalledConnectionClosed ==
    \E p \in Partitions :
      /\ Len(pumps) < limit.pumps
      /\ ~partitionProcessorFactory.initialize
      /\ pumps' = Append(pumps,
            receiveEventsThrows([NewPump(p, partitionProcessorFactory,
                                         [initialEventPosition |-> NoPosition])
                                   EXCEPT !.isReceiving = TRUE]))
      /\ UNCHANGED <<procVars, loops, stops, ticks, storeVars, pumpOf, lock, calls>>

\* initialize() returns or throws, and createConsumer throws.
InitializeDoneConnectionClosed ==
    \E k \in PumpIds :
      /\ pumps[k].pc = "initialize"
      /\ pumps' = [pumps EXCEPT ![k] = receiveEventsThrows([@ EXCEPT !.initialize = "done"])]
      /\ UNCHANGED <<procVars, loops, stops, ticks, storeVars, pumpOf, lock, calls>>

PumpNext ==
    \/ InitializeDone
    \/ ReceiveBatchDone
    \/ ReceiveBatchFail
    \/ ReceiveAfterStop
    \/ ProcessEventsReturn
    \/ ProcessEventsThrow
    \/ ProcessErrorDone
    \/ OwnStopDone
    \/ ReceiverCloseDone
    \/ ReceiverCloseFail
    \/ HandlerCloseDone

\* ------------------------------------------------- PartitionLoadBalancer

\* An ownership record is active while it is younger than inactiveTimeLimitInMS.
IsActive(o) == o # NoOwnership /\ o.active

\* The number of active ownerships of an owner among the partitions ids.
OwnedCount(snap, ids, id) ==
    Cardinality({p \in ids : IsActive(snap[p]) /\ snap[p].ownerId = id})

\* A load balancer that returns none only when it holds more than minPer.
loadBalanceForAboveMinOnly(id, snap, ids) ==
    LET owners == {snap[p].ownerId : p \in {x \in ids : IsActive(snap[x])}}
        selfCount == OwnedCount(snap, ids, id)
        activeOwners == Cardinality(owners) + (IF selfCount > 0 THEN 0 ELSE 1)
        minPer == Cardinality(ids) \div activeOwners
        A == {p \in ids : snap[p] = NoOwnership}
        B == {p \in ids : snap[p] # NoOwnership /\ ~snap[p].active}
        C == {p \in ids : /\ IsActive(snap[p])
                          /\ OwnedCount(snap, ids, snap[p].ownerId) > minPer + 1}
    IN  IF selfCount > minPer
        THEN {}
        ELSE IF A # {} THEN A ELSE IF B # {} THEN B ELSE C

\* A load balancer that takes every partition without an active record of
\* another owner for a candidate.
loadBalanceForNotOthers(id, snap, ids) ==
    LET owners == {snap[p].ownerId : p \in {x \in ids : IsActive(snap[x])}}
        selfCount == OwnedCount(snap, ids, id)
        activeOwners == Cardinality(owners) + (IF selfCount > 0 THEN 0 ELSE 1)
        minPer == Cardinality(ids) \div activeOwners
        extras == Cardinality(ids) % activeOwners
        holdingExtra ==
            Cardinality({o \in owners : OwnedCount(snap, ids, o) >= minPer + 1})
        A == {p \in ids : ~IsActive(snap[p]) \/ snap[p].ownerId = id}
        C == {p \in ids : /\ IsActive(snap[p])
                          /\ OwnedCount(snap, ids, snap[p].ownerId) > minPer + 1}
    IN  IF selfCount > minPer \/ (selfCount = minPer /\ holdingExtra >= extras)
        THEN {}
        ELSE IF A # {} THEN A ELSE C

\* A load balancer that draws from all its candidates at once.
loadBalanceForAnyCandidate(id, snap, ids) ==
    LET owners == {snap[p].ownerId : p \in {x \in ids : IsActive(snap[x])}}
        selfCount == OwnedCount(snap, ids, id)
        activeOwners == Cardinality(owners) + (IF selfCount > 0 THEN 0 ELSE 1)
        minPer == Cardinality(ids) \div activeOwners
        extras == Cardinality(ids) % activeOwners
        holdingExtra ==
            Cardinality({o \in owners : OwnedCount(snap, ids, o) >= minPer + 1})
        A == {p \in ids : snap[p] = NoOwnership}
        B == {p \in ids : snap[p] # NoOwnership /\ ~snap[p].active}
        C == {p \in ids : /\ IsActive(snap[p])
                          /\ OwnedCount(snap, ids, snap[p].ownerId) > minPer + 1}
    IN  IF selfCount > minPer \/ (selfCount = minPer /\ holdingExtra >= extras)
        THEN {}
        ELSE A \cup B \cup C

\* PartitionLoadBalancer.loadBalance: the partitions it may return (it draws
\* one at random); the empty set when it returns none.
loadBalanceFor(id, snap, ids) ==
    LET owners == {snap[p].ownerId : p \in {x \in ids : IsActive(snap[x])}}
        selfCount == OwnedCount(snap, ids, id)
        activeOwners == Cardinality(owners) + (IF selfCount > 0 THEN 0 ELSE 1)
        minPer == Cardinality(ids) \div activeOwners
        extras == Cardinality(ids) % activeOwners
        holdingExtra ==
            Cardinality({o \in owners : OwnedCount(snap, ids, o) >= minPer + 1})
        A == {p \in ids : snap[p] = NoOwnership}
        B == {p \in ids : snap[p] # NoOwnership /\ ~snap[p].active}
        C == {p \in ids : /\ IsActive(snap[p])
                          /\ OwnedCount(snap, ids, snap[p].ownerId) > minPer + 1}
    IN  IF selfCount > minPer \/ (selfCount = minPer /\ holdingExtra >= extras)
        THEN {}
        ELSE IF A # {} THEN A ELSE IF B # {} THEN B ELSE C

\* The load balancer of this processor.
loadBalance(snap, ids) == loadBalanceFor(SelfId, snap, ids)

\* ------------------------------------------------------- PartitionManager

\* claimOwnership of one request: accepted when the eTags match.
ClaimAccepted(req) == ownership[req.partitionId].eTag = req.eTag

\* The store after it has committed a request.
Committed(req) ==
    [ownership EXCEPT ![req.partitionId] =
        [ownerId |-> req.ownerId, eTag |-> eTagCounter + 1, active |-> TRUE,
         sequenceNumber |-> req.sequenceNumber, offset |-> req.offset]]

\* Another processor claims or renews a partition.
OtherClaim ==
    \E p \in Partitions :
      /\ otherWrites < limit.otherWrites
      /\ otherWrites' = otherWrites + 1
      /\ \E n \in limit.sequenceNumbers :
           ownership' = [ownership EXCEPT ![p] =
              [ownerId |-> OtherId, eTag |-> eTagCounter + 1, active |-> TRUE,
               sequenceNumber |-> n, offset |-> OffsetOf(n)]]
      /\ eTagCounter' = eTagCounter + 1
      /\ UNCHANGED <<procVars, loops, stops, ticks, pumpOf, lock, pumps, calls>>

\* A tick of the peer processor, which runs the same load balancer on the
\* ownership list and claims the partition it returns.
OtherTick ==
    \E t \in loadBalanceFor(OtherId, ownership, Partitions) :
      /\ otherWrites < limit.otherWrites
      /\ otherWrites' = otherWrites + 1
      /\ ownership' = [ownership EXCEPT ![t] =
            [ownerId |-> OtherId, eTag |-> eTagCounter + 1, active |-> TRUE,
             sequenceNumber |-> @.sequenceNumber, offset |-> @.offset]]
      /\ eTagCounter' = eTagCounter + 1
      /\ UNCHANGED <<procVars, loops, stops, ticks, pumpOf, lock, pumps, calls>>

\* An ownership record grows older than inactiveTimeLimitInMS.
Expire ==
    \E p \in Partitions :
      /\ IsActive(ownership[p])
      /\ ownership' = [ownership EXCEPT ![p].active = FALSE]
      /\ UNCHANGED <<procVars, loops, stops, ticks, eTagCounter, otherWrites, pumpOf,
                     lock, pumps, calls>>

\* --------------------------------------------------------- EventProcessor

\* The partitionIds of a tick before getPartitionIds has resolved; once it has,
\* the one-element sequence of the list it resolved with.
NoPartitionIds == <<>>

NewLoop ==
    [pc |-> "listOwnership", aborted |-> FALSE, snap |-> NoSnapshot,
     req |-> NoRequest, result |-> "none", pump |-> 0, errorLogged |-> FALSE,
     claims |-> 0, partitionIds |-> NoPartitionIds]

LoopIds == 1..Len(loops)

\* A request that carries no eTag.
createPartitionOwnershipRequestNoETag(snap, partitionIdToClaim) ==
    [ownerId |-> SelfId, partitionId |-> partitionIdToClaim,
     sequenceNumber |-> snap[partitionIdToClaim].sequenceNumber,
     offset |-> snap[partitionIdToClaim].offset,
     eTag |-> 0,
     ownerLevel |-> 0]

\* _createPartitionOwnershipRequest
createPartitionOwnershipRequest(snap, partitionIdToClaim) ==
    LET previousPartitionOwnership == snap[partitionIdToClaim] IN
    [ownerId |-> SelfId, partitionId |-> partitionIdToClaim,
     sequenceNumber |-> IF previousPartitionOwnership # NoOwnership
                        THEN previousPartitionOwnership.sequenceNumber
                        ELSE NoSequenceNumber,
     offset |-> IF previousPartitionOwnership # NoOwnership
                THEN previousPartitionOwnership.offset ELSE NoOffset,
     eTag |-> IF previousPartitionOwnership # NoOwnership
              THEN previousPartitionOwnership.eTag ELSE 0,
     ownerLevel |-> 0]

\* A tick that, instead of its delay, claims whatever the load balancer still
\* returns for the store as it is.
ClaimNext(l) ==
    IF l.aborted
    THEN [l EXCEPT !.pc = "ended", !.req = NoRequest, !.result = "none", !.pump = 0]
    ELSE IF l.claims >= 1 /\ loadBalance(ownership, Partitions) # {}
    THEN [l EXCEPT !.pc = "claimOwnership", !.result = "none", !.pump = 0,
                   !.claims = @ + 1,
                   !.req = createPartitionOwnershipRequest(ownership,
                              CHOOSE t \in loadBalance(ownership, Partitions) : TRUE)]
    ELSE [l EXCEPT !.pc = "delay", !.req = NoRequest, !.result = "none", !.pump = 0,
                   !.claims = 0]

\* await delay(waitIntervalInMs, abortSignal): rejects at once on an aborted
\* signal, and the loop then ends at its while test.
Sleep(l) ==
    [l EXCEPT !.pc = IF l.aborted THEN "ended" ELSE "delay",
              !.req = NoRequest, !.result = "none", !.pump = 0, !.claims = 0,
              !.partitionIds = IF l.aborted THEN NoPartitionIds ELSE @]

\* A control loop that returns after one iteration.
NextIterationReturns(c, l) ==
    /\ loops' = [loops EXCEPT ![c] =
          [l EXCEPT !.pc = "ended", !.snap = NoSnapshot, !.partitionIds = NoPartitionIds]]
    /\ ticks' = ticks

\* The while test of _runLoop and the listOwnership call of the next iteration.
NextIteration(c, l) ==
    /\ l.aborted \/ ticks < limit.ticks
    /\ loops' = [loops EXCEPT ![c] =
          [l EXCEPT !.pc = IF l.aborted THEN "ended" ELSE "listOwnership",
                    !.snap = NoSnapshot, !.partitionIds = NoPartitionIds]]
    /\ ticks' = IF l.aborted THEN ticks ELSE ticks + 1

\* The body of EventProcessor.start() after its test of _isRunning: a new
\* AbortController, and _runLoop launched with its signal.
Launch ==
    /\ Len(loops) < limit.starts
    /\ ticks < limit.ticks
    /\ isRunning' = TRUE
    /\ abortController' = Len(loops) + 1
    /\ loopTask' = Len(loops) + 1
    /\ loops' = Append(loops, NewLoop)
    /\ ticks' = ticks + 1
    /\ UNCHANGED <<limit, partitionProcessorFactory, processorOptions, startsIgnored, stops,
                   storeVars, pumpOf, lock, pumps, calls>>

\* start() without its test of _isRunning.
StartAlways == Launch

\* EventProcessor.start(): on a running processor it logs and returns.
Start ==
    IF isRunning
    THEN /\ startsIgnored < limit.startsIgnored
         /\ startsIgnored' = startsIgnored + 1
         /\ UNCHANGED <<limit, partitionProcessorFactory, processorOptions, isRunning,
                        abortController, loopTask, loops, stops, ticks, storeVars, pumpOf,
                        lock, pumps, calls>>
    ELSE Launch

\* listOwnership resolves: the map is built and getPartitionIds is called.
ListOwnershipDone ==
    \E c \in LoopIds :
      /\ loops[c].pc = "listOwnership"
      /\ loops' = [loops EXCEPT ![c] = [@ EXCEPT !.pc = "getPartitionIds",
                                                 !.snap = ownership]]
      /\ UNCHANGED <<procVars, stops, ticks, storeVars, pumpOf, lock, pumps, calls>>

\* A catch in _runLoop that leaves the loop.
StoreCallFailEnds ==
    \E c \in LoopIds :
      /\ loops[c].pc \in {"listOwnership", "getPartitionIds"}
      /\ loops' = [loops EXCEPT ![c] = [@ EXCEPT !.pc = "ended", !.errorLogged = TRUE]]
      /\ UNCHANGED <<procVars, stops, ticks, storeVars, pumpOf, lock, pumps, calls>>

\* listOwnership or getPartitionIds rejects: the catch logs, the loop goes on.
StoreCallFail ==
    \E c \in LoopIds :
      /\ loops[c].pc \in {"listOwnership", "getPartitionIds"}
      /\ NextIteration(c, [loops[c] EXCEPT !.errorLogged = TRUE])
      /\ UNCHANGED <<procVars, stops, storeVars, pumpOf, lock, pumps, calls>>

\* A tick that goes on to load balancing without testing the signal.
AfterGetPartitionIdsNoAbortTest(c, ids) ==
    LET l == loops[c]
        targets == IF ids = {} THEN {} ELSE loadBalance(l.snap, ids)
    IN  IF targets = {}
        THEN loops' = [loops EXCEPT ![c] = Sleep([l EXCEPT !.snap = NoSnapshot])]
        ELSE \E t \in targets :
               loops' = [loops EXCEPT ![c] =
                  [l EXCEPT !.pc = "claimOwnership", !.snap = NoSnapshot,
                            !.claims = @ + 1,
                            !.req = createPartitionOwnershipRequest(l.snap, t)]]

\* A tick that goes to its delay without claiming.
AfterGetPartitionIdsNoClaim(c, ids) ==
    LET l == loops[c]
    IN  IF l.aborted
        THEN loops' = [loops EXCEPT ![c] = [l EXCEPT !.pc = "ended", !.snap = NoSnapshot]]
        ELSE loops' = [loops EXCEPT ![c] = Sleep([l EXCEPT !.snap = NoSnapshot])]

\* A tick that returns when the list of partition ids is empty.
AfterGetPartitionIdsEmptyReturns(c, ids) ==
    LET l == [loops[c] EXCEPT !.partitionIds = <<ids>>]
        targets == IF ids = {} THEN {} ELSE loadBalance(l.snap, ids)
    IN  IF l.aborted \/ ids = {}
        THEN loops' = [loops EXCEPT ![c] = [l EXCEPT !.pc = "ended", !.snap = NoSnapshot]]
        ELSE IF targets = {}
        THEN loops' = [loops EXCEPT ![c] = Sleep([l EXCEPT !.snap = NoSnapshot])]
        ELSE \E t \in targets :
               loops' = [loops EXCEPT ![c] =
                  [l EXCEPT !.pc = "claimOwnership", !.snap = NoSnapshot,
                            !.claims = @ + 1,
                            !.req = createPartitionOwnershipRequest(l.snap, t)]]

\* _runLoop after getPartitionIds has resolved with ids: abort test, load
\* balancing, the claimOwnership call.
AfterGetPartitionIds(c, ids) ==
    LET l == loops[c]
        targets == IF ids = {} THEN {} ELSE loadBalance(l.snap, ids)
    IN  IF l.aborted
        THEN loops' = [loops EXCEPT ![c] = [l EXCEPT !.pc = "ended", !.snap = NoSnapshot]]
        ELSE IF targets = {}
        THEN loops' = [loops EXCEPT ![c] =
                          Sleep([l EXCEPT !.snap = NoSnapshot, !.partitionIds = <<ids>>])]
        ELSE \E t \in targets :
               loops' = [loops EXCEPT ![c] =
                  [l EXCEPT !.pc = "claimOwnership", !.snap = NoSnapshot,
                            !.partitionIds = <<ids>>,
                            !.claims = @ + 1,
                            !.req = createPartitionOwnershipRequest(l.snap, t)]]

\* getPartitionIds resolves with the partition ids of the event hub.
GetPartitionIdsDone ==
    \E c \in LoopIds :
      /\ loops[c].pc = "getPartitionIds"
      /\ AfterGetPartitionIds(c, Partitions)
      /\ UNCHANGED <<procVars, stops, ticks, storeVars, pumpOf, lock, pumps, calls>>

\* getPartitionIds resolves with an empty list.
GetPartitionIdsEmpty ==
    \E c \in LoopIds :
      /\ loops[c].pc = "getPartitionIds"
      /\ AfterGetPartitionIds(c, {})
      /\ UNCHANGED <<procVars, stops, ticks, storeVars, pumpOf, lock, pumps, calls>>

\* _claimOwnership: the position it hands to createPump.
eventPosition(ownershipRequest) ==
    IF /\ ownershipRequest.sequenceNumber # NoSequenceNumber
       /\ ownershipRequest.sequenceNumber # 0
    THEN FromSequenceNumber(ownershipRequest.sequenceNumber)
    ELSE IF processorOptions.initialEventPosition # NoPosition
         THEN processorOptions.initialEventPosition
         ELSE Earliest

\* The pump createPump constructs for the claim of loop l: the handler of the
\* user factory, and the position as the pump's initialEventPosition option.
PumpFor(l) ==
    NewPump(l.req.partitionId, partitionProcessorFactory,
            [initialEventPosition |-> eventPosition(l.req)])

\* PumpManager.createPump once it holds the lock, with no pump stored for the
\* partition: the pump is constructed and started.
StartNewPump(c, l) ==
    /\ Len(pumps) < limit.pumps
    /\ pumps' = Append(pumps, start(PumpFor(l)))
    /\ loops' = [loops EXCEPT ![c] =
          [l EXCEPT !.pc = "createPump.start", !.pump = Len(pumps) + 1]]
    /\ lock' = c
    /\ UNCHANGED <<pumpOf, calls>>

\* PumpManager.createPump once it holds the lock: a pump stored for the
\* partition is stopped first.
EnterCreatePump(c, l) ==
    LET old == pumpOf[l.req.partitionId] IN
    IF old # 0
    THEN LET r == stop(pumps[old], Shutdown) IN
         /\ pumps' = [pumps EXCEPT ![old] = r.pump]
         /\ calls' = calls \cup {Call(old, Shutdown, r.pc, "createPump", c)}
         /\ loops' = [loops EXCEPT ![c] = [l EXCEPT !.pc = "createPump.stop"]]
         /\ lock' = c
         /\ UNCHANGED pumpOf
    ELSE StartNewPump(c, l)

\* PumpManager.createPump up to its first await.
createPump(c, l) ==
    IF lock # 0
    THEN /\ loops' = [loops EXCEPT ![c] = [l EXCEPT !.pc = "createPump.lock"]]
         /\ UNCHANGED <<lock, pumpOf, pumps, calls>>
    ELSE EnterCreatePump(c, l)

\* _claimOwnership that returns after the claim, without a pump.
AfterClaimNoPump(c, l) ==
    /\ loops' = [loops EXCEPT ![c] = Sleep(l)]
    /\ UNCHANGED <<lock, pumpOf, pumps, calls>>

\* _claimOwnership after claimOwnership has resolved with result: the user
\* factory is called, then createPump.
AfterClaim(c, l) == createPump(c, l)

\* claimOwnership resolves, with the request committed or with an empty result.
ClaimOwnershipDone ==
    \E c \in LoopIds :
      /\ loops[c].pc = "claimOwnership"
      /\ LET req == loops[c].req IN
           IF ClaimAccepted(req)
           THEN /\ ownership' = Committed(req)
                /\ eTagCounter' = eTagCounter + 1
                /\ AfterClaim(c, [loops[c] EXCEPT !.result = "claimed"])
           ELSE /\ UNCHANGED <<ownership, eTagCounter>>
                /\ AfterClaim(c, [loops[c] EXCEPT !.result = "empty"])
      /\ UNCHANGED <<procVars, stops, ticks, otherWrites>>

\* claimOwnership resolves and the user factory throws: _claimOwnership logs
\* and returns.
FactoryThrows ==
    \E c \in LoopIds :
      /\ loops[c].pc = "claimOwnership"
      /\ LET req == loops[c].req IN
           IF ClaimAccepted(req)
           THEN /\ ownership' = Committed(req)
                /\ eTagCounter' = eTagCounter + 1
           ELSE UNCHANGED <<ownership, eTagCounter>>
      /\ loops' = [loops EXCEPT ![c] = Sleep([@ EXCEPT !.errorLogged = TRUE])]
      /\ UNCHANGED <<procVars, stops, ticks, otherWrites, pumpOf, lock, pumps, calls>>

\* claimOwnership rejects: _claimOwnership logs and returns.
ClaimOwnershipFail ==
    \E c \in LoopIds :
      /\ loops[c].pc = "claimOwnership"
      /\ loops' = [loops EXCEPT ![c] = Sleep([@ EXCEPT !.result = "threw", !.errorLogged = TRUE])]
      /\ UNCHANGED <<procVars, stops, ticks, storeVars, pumpOf, lock, pumps, calls>>

\* createPump gets the lock another createPump held.
CreatePumpLocked ==
    \E c \in LoopIds :
      /\ loops[c].pc = "createPump.lock"
      /\ lock = 0
      /\ EnterCreatePump(c, loops[c])
      /\ UNCHANGED <<procVars, stops, ticks, storeVars>>

\* The stop(Shutdown) of the pump being replaced settles.
CreatePumpOldStopped ==
    \E c \in LoopIds :
      /\ loops[c].pc = "createPump.stop"
      /\ \E s \in calls :
           /\ s.by = [kind |-> "createPump", id |-> c]
           /\ \/ /\ s.pc = "resolved"
                 /\ Len(pumps) < limit.pumps
                 /\ pumps' = Append(pumps, start(PumpFor(loops[c])))
                 /\ loops' = [loops EXCEPT ![c] =
                       [@ EXCEPT !.pc = "createPump.start", !.pump = Len(pumps) + 1]]
                 /\ pumpOf' = [pumpOf EXCEPT ![loops[c].req.partitionId] = 0]
                 /\ UNCHANGED lock
              \/ /\ s.pc = "rejected"
                 /\ loops' = [loops EXCEPT ![c] = Sleep([@ EXCEPT !.errorLogged = TRUE])]
                 /\ lock' = 0
                 /\ UNCHANGED <<pumps, pumpOf>>
           /\ calls' = calls \ {s}
      /\ UNCHANGED <<procVars, stops, ticks, storeVars>>

\* pump.start() has resolved: createPump stores the pump and returns.
CreatePumpStarted ==
    \E c \in LoopIds :
      /\ loops[c].pc = "createPump.start"
      /\ pumps[loops[c].pump].pc # "initialize"
      /\ pumpOf' = [pumpOf EXCEPT ![loops[c].req.partitionId] = loops[c].pump]
      /\ lock' = 0
      /\ loops' = [loops EXCEPT ![c] = Sleep(@)]
      /\ UNCHANGED <<procVars, stops, ticks, storeVars, pumps, calls>>

\* The delay ends: its timer fires, or the abort rejects it.
DelayDone ==
    \E c \in LoopIds :
      /\ loops[c].pc = "delay"
      /\ NextIteration(c, loops[c])
      /\ UNCHANGED <<procVars, stops, storeVars, pumpOf, lock, pumps, calls>>

\* The pumps PumpManager has stored.
StoredPumps == {pumpOf[p] : p \in Partitions} \ {0}

\* EventProcessor.stop() up to its first await: abort, then removeAllPumps,
\* which calls stop(Shutdown) on every stored pump.
Stop ==
    /\ Len(stops) < limit.stops
    /\ loops' = IF abortController # 0
                THEN [loops EXCEPT ![abortController] = [@ EXCEPT !.aborted = TRUE]]
                ELSE loops
    /\ isRunning' = FALSE
    /\ stops' = Append(stops, [pc |-> "removeAllPumps", loop |-> 0, wasRunning |-> isRunning,
                               removing |-> StoredPumps, errorLogged |-> FALSE])
    /\ pumps' = [k \in DOMAIN pumps |->
                   IF k \in StoredPumps THEN stop(pumps[k], Shutdown).pump ELSE pumps[k]]
    /\ calls' = calls \cup
          {Call(k, Shutdown, stop(pumps[k], Shutdown).pc, "removeAllPumps", Len(stops) + 1)
             : k \in StoredPumps}
    /\ UNCHANGED <<limit, partitionProcessorFactory, processorOptions, abortController, loopTask,
                   startsIgnored, ticks, storeVars, pumpOf, lock>>

\* The stop() calls that removeAllPumps of stop call s awaits.
RemoveCalls(s) == {c \in calls : c.by = [kind |-> "removeAllPumps", id |-> s]}

\* A catch in stop() that logs the error and rethrows it.
StopCatchRethrows(st) == [st EXCEPT !.pc = "rejected", !.errorLogged = TRUE]

\* The catch and finally of EventProcessor.stop(): the error is logged, stop()
\* returns.
StopCatch(st) == [st EXCEPT !.pc = "resolved", !.errorLogged = TRUE]

\* removeAllPumps settles: on success the stopped pumps leave the index and
\* stop() awaits _loopTask; on failure stop() logs and returns.
RemoveAllPumpsDone ==
    \E s \in 1..Len(stops) :
      /\ stops[s].pc = "removeAllPumps"
      /\ \A c \in RemoveCalls(s) : c.pc \in {"resolved", "rejected"}
      /\ calls' = calls \ RemoveCalls(s)
      /\ IF \E c \in RemoveCalls(s) : c.pc = "rejected"
         THEN /\ stops' = [stops EXCEPT ![s] = StopCatch(@)]
              /\ UNCHANGED pumpOf
         ELSE /\ stops' = [stops EXCEPT ![s] = [@ EXCEPT !.pc = "loopTask", !.loop = loopTask]]
              /\ pumpOf' = [p \in Partitions |->
                              IF pumpOf[p] \in {c.pump : c \in RemoveCalls(s)}
                              THEN 0 ELSE pumpOf[p]]
      /\ UNCHANGED <<procVars, loops, ticks, storeVars, lock, pumps>>

\* The awaited _loopTask has ended (or was undefined): stop() resolves.
LoopTaskDone ==
    \E s \in 1..Len(stops) :
      /\ stops[s].pc = "loopTask"
      /\ IF stops[s].loop = 0 THEN TRUE ELSE loops[stops[s].loop].pc = "ended"
      /\ stops' = [stops EXCEPT ![s] = [@ EXCEPT !.pc = "resolved"]]
      /\ UNCHANGED <<procVars, loops, ticks, storeVars, pumpOf, lock, pumps, calls>>

ProcessorNext ==
    \/ Start
    \/ Stop
    \/ ListOwnershipDone
    \/ StoreCallFail
    \/ GetPartitionIdsDone
    \/ GetPartitionIdsEmpty
    \/ ClaimOwnershipDone
    \/ FactoryThrows
    \/ ClaimOwnershipFail
    \/ CreatePumpLocked
    \/ CreatePumpOldStopped
    \/ CreatePumpStarted
    \/ DelayDone
    \/ RemoveAllPumpsDone
    \/ LoopTaskDone

StoreNext == OtherClaim \/ Expire

\* The state after construction; the handlers' shape and the options are inputs.
Constructed ==
    /\ partitionProcessorFactory \in Handlers
    /\ isRunning = FALSE
    /\ abortController = 0
    /\ loopTask = 0
    /\ startsIgnored = 0
    /\ loops = <<>>
    /\ stops = <<>>
    /\ ticks = 0
    /\ ownership = [p \in Partitions |-> NoOwnership]
    /\ eTagCounter = 0
    /\ otherWrites = 0
    /\ pumpOf = [p \in Partitions |-> 0]
    /\ lock = 0
    /\ pumps = <<>>
    /\ calls = {}

Init ==
    /\ limit = [starts |-> MaxStarts, startsIgnored |-> 0, stops |-> MaxStops, ticks |-> MaxTicks,
                pumps |-> MaxPumps, otherWrites |-> MaxOtherWrites,
                partitions |-> {"0"}, events |-> 0,
                sequenceNumbers |-> {NoSequenceNumber}]
    /\ processorOptions = [initialEventPosition |-> NoPosition]
    /\ Constructed

Next == ProcessorNext \/ PumpNext \/ StoreNext

Spec == Init /\ [][Next]_vars

\* The runs with one pump: the processor is started once, its one tick claims
\* the partition and creates the pump, and stop() is called at any moment.
InitPump ==
    /\ limit = [starts |-> 1, startsIgnored |-> 0, stops |-> PumpStops, ticks |-> 1, pumps |-> 1,
                otherWrites |-> 0, partitions |-> {"0"}, events |-> 0,
                sequenceNumbers |-> {NoSequenceNumber}]
    /\ processorOptions = [initialEventPosition |-> NoPosition]
    /\ Constructed

NextPump ==
    \/ Start
    \/ Stop
    \/ ListOwnershipDone
    \/ GetPartitionIdsDone
    \/ GetPartitionIdsEmpty
    \/ ClaimOwnershipDone
    \/ CreatePumpStarted
    \/ DelayDone
    \/ RemoveAllPumpsDone
    \/ LoopTaskDone
    \/ PumpNext

SpecPump == InitPump /\ [][NextPump]_vars

\* The runs with a healthy broker and handlers that do not throw from
\* processEvents: the processor is stopped once and may be started again, so two
\* control loops can be in createPump at once; another processor writes once.
InitHealthy ==
    /\ limit = [starts |-> 2, startsIgnored |-> 0, stops |-> 1, ticks |-> HealthyTicks,
                pumps |-> HealthyTicks, otherWrites |-> 1, partitions |-> {"0"},
                events |-> 0, sequenceNumbers |-> {NoSequenceNumber}]
    /\ processorOptions = [initialEventPosition |-> NoPosition]
    /\ Constructed

NextHealthy ==
    \/ ProcessorNext
    \/ StoreNext
    \/ InitializeDone
    \/ ReceiveBatchDone
    \/ ReceiveAfterStop
    \/ ProcessEventsReturn
    \/ ReceiverCloseDone
    \/ HandlerCloseDone

SpecHealthy == InitHealthy /\ [][NextHealthy]_vars

\* The runs that follow the reader of one pump through the events of the
\* partition.
InitReader ==
    /\ limit = [starts |-> 1, startsIgnored |-> 0, stops |-> 1, ticks |-> 1, pumps |-> 1, otherWrites |-> 0,
                partitions |-> {"0"}, events |-> MaxEvents,
                sequenceNumbers |-> {NoSequenceNumber}]
    /\ processorOptions \in Options
    /\ Constructed

SpecReader == InitReader /\ [][NextPump]_vars

\* The runs that follow the position a pump's reader is opened at: another
\* processor may have owned the partition and checkpointed before.
InitPosition ==
    /\ limit = [starts |-> 1, startsIgnored |-> 0, stops |-> 1, ticks |-> 2, pumps |-> 1, otherWrites |-> 1,
                partitions |-> {"0"}, events |-> 0,
                sequenceNumbers |-> NoSequenceNumber..MaxSequenceNumber]
    /\ processorOptions \in Options
    /\ Constructed

NextPosition == NextPump \/ StoreNext

SpecPosition == InitPosition /\ [][NextPosition]_vars

\* The runs in which start() is called again: on the running processor, and
\* after stop().
InitRestart ==
    /\ limit = [starts |-> 2, startsIgnored |-> MaxStartsIgnored, stops |-> 1, ticks |-> 2,
                pumps |-> 2, otherWrites |-> 0, partitions |-> {"0"}, events |-> 0,
                sequenceNumbers |-> {NoSequenceNumber}]
    /\ processorOptions = [initialEventPosition |-> NoPosition]
    /\ Constructed

SpecRestart == InitRestart /\ [][NextPump]_vars

\* The runs of a fleet of two: this processor, started once and never stopped,
\* and a peer processor, over the partitions of one event hub, with a store and
\* a broker that do not fail and handlers that define no close.
InitFleet ==
    /\ limit = [starts |-> 1, startsIgnored |-> 0, stops |-> 0, ticks |-> FleetTicks,
                pumps |-> FleetTicks, otherWrites |-> FleetOtherTicks,
                partitions |-> PartitionIdsOf(FleetPartitions), events |-> 0,
                sequenceNumbers |-> {NoSequenceNumber}]
    /\ processorOptions = [initialEventPosition |-> NoPosition]
    /\ Constructed
    /\ ~partitionProcessorFactory.close

NextFleet ==
    \/ Start
    \/ ListOwnershipDone
    \/ GetPartitionIdsDone
    \/ ClaimOwnershipDone
    \/ CreatePumpOldStopped
    \/ CreatePumpStarted
    \/ DelayDone
    \/ InitializeDone
    \/ ReceiveBatchDone
    \/ ReceiveAfterStop
    \/ ProcessEventsReturn
    \/ ReceiverCloseDone
    \/ OtherTick
    \/ Expire

SpecFleet == InitFleet /\ [][NextFleet]_vars

\* The runs of a processor that survives its peer: the peer commits its claims
\* and stops for good, and its records age.
InitSurvivor ==
    /\ limit = [starts |-> 1, startsIgnored |-> 0, stops |-> 0, ticks |-> SurvivorTicks,
                pumps |-> SurvivorTicks, otherWrites |-> SurvivorOtherTicks,
                partitions |-> PartitionIdsOf(SurvivorPartitions), events |-> 0,
                sequenceNumbers |-> {NoSequenceNumber}]
    /\ processorOptions = [initialEventPosition |-> NoPosition]
    /\ Constructed
    /\ ~partitionProcessorFactory.close

SpecSurvivor == InitSurvivor /\ [][NextFleet]_vars

\* The runs of a lone processor on an empty store, with a store, a broker and
\* handlers that do not fail and that define close: it is started once, has time for as many
\* ticks as there are partitions, and is stopped at any moment.
InitLone ==
    /\ limit = [starts |-> 1, startsIgnored |-> 0, stops |-> 1, ticks |-> LonePartitions,
                pumps |-> LonePartitions, otherWrites |-> 0,
                partitions |-> PartitionIdsOf(LonePartitions), events |-> 0,
                sequenceNumbers |-> {NoSequenceNumber}]
    /\ processorOptions = [initialEventPosition |-> NoPosition]
    /\ Constructed
    /\ partitionProcessorFactory.close

\* What the lone processor does without its user: the steps of its control
\* loop, of its pumps and of the stop() call in flight.
LoneProgress ==
    \/ ListOwnershipDone
    \/ GetPartitionIdsDone
    \/ ClaimOwnershipDone
    \/ CreatePumpStarted
    \/ DelayDone
    \/ RemoveAllPumpsDone
    \/ LoopTaskDone
    \/ InitializeDone
    \/ ReceiveBatchDone
    \/ ReceiveAfterStop
    \/ ProcessEventsReturn
    \/ ReceiverCloseDone
    \/ HandlerCloseDone

NextLone == Start \/ Stop \/ LoneProgress

\* A step of pump k that its own code takes: initialize() settles, or
\* receiveBatch resolves.
PumpStep(k) ==
    /\ k \in PumpIds
    /\ InitializeDone \/ ReceiveBatchDone
    /\ pumps'[k] # pumps[k]

\* The user starts the processor, every call of the control loop settles and
\* the delay ends, and every pump's calls settle.
LoneFairness ==
    /\ WF_vars(Start)
    /\ WF_vars(ListOwnershipDone)
    /\ WF_vars(GetPartitionIdsDone)
    /\ WF_vars(ClaimOwnershipDone)
    /\ WF_vars(CreatePumpStarted)
    /\ WF_vars(DelayDone)
    /\ \A k \in 1..LonePartitions : WF_vars(PumpStep(k))

SpecLone == InitLone /\ [][NextLone]_vars /\ LoneFairness

\* The runs of one PartitionPump driven through its public interface: a caller
\* constructs and starts it, and calls stop() at any moment.
InitPumpApi ==
    /\ limit = [starts |-> 0, startsIgnored |-> 0, stops |-> PumpStops, ticks |-> 0,
                pumps |-> 1, otherWrites |-> 0, partitions |-> {"0"}, events |-> 1,
                sequenceNumbers |-> {NoSequenceNumber}]
    /\ processorOptions = [initialEventPosition |-> NoPosition]
    /\ Constructed

NextPumpApi == PumpStartCalled \/ PumpStopCalled \/ PumpNext

SpecPumpApi == InitPumpApi /\ [][NextPumpApi]_vars

\* The same runs with a client whose connection may be closed when the pump
\* creates its consumer.
NextPumpOpen ==
    \/ NextPumpApi
    \/ PumpStartCalledConnectionClosed
    \/ InitializeDoneConnectionClosed

SpecPumpOpen == InitPumpApi /\ [][NextPumpOpen]_vars

\* The first tick of a processor on every ownership list of the store: each
\* partition has no record, or an active or an expired record of this
\* processor or of one of two others.
StoreOwners == {SelfId, OtherId, "third"}

StoredOwnerships ==
    {NoOwnership} \cup
    [ownerId : StoreOwners, eTag : {1}, active : BOOLEAN,
     sequenceNumber : {NoSequenceNumber}, offset : {NoOffset}]

InitBalance ==
    /\ \E n \in 1..BalancePartitions :
         limit = [starts |-> 1, startsIgnored |-> 0, stops |-> 0, ticks |-> 1,
                  pumps |-> 0, otherWrites |-> 0,
                  partitions |-> PartitionIdsOf(n), events |-> 0,
                  sequenceNumbers |-> {NoSequenceNumber}]
    /\ processorOptions = [initialEventPosition |-> NoPosition]
    /\ partitionProcessorFactory = [initialize |-> FALSE, close |-> FALSE]
    /\ isRunning = FALSE
    /\ abortController = 0
    /\ loopTask = 0
    /\ startsIgnored = 0
    /\ loops = <<>>
    /\ stops = <<>>
    /\ ticks = 0
    /\ ownership \in [Partitions -> StoredOwnerships]
    /\ eTagCounter = 1
    /\ otherWrites = 0
    /\ pumpOf = [p \in Partitions |-> 0]
    /\ lock = 0
    /\ pumps = <<>>
    /\ calls = {}

NextBalance == Start \/ ListOwnershipDone \/ GetPartitionIdsDone

SpecBalance == InitBalance /\ [][NextBalance]_vars

\* The runs of a processor that is started once and keeps running, on an event
\* hub with one partition: the user factory may throw, receiveBatch may reject,
\* and the ownership record grows old.
InitRecover ==
    /\ limit = [starts |-> 1, startsIgnored |-> 0, stops |-> 0, ticks |-> RecoverTicks,
                pumps |-> RecoverTicks, otherWrites |-> 0, partitions |-> {"0"},
                events |-> 0, sequenceNumbers |-> {NoSequenceNumber}]
    /\ processorOptions = [initialEventPosition |-> NoPosition]
    /\ Constructed

NextRecover ==
    \/ Start
    \/ ListOwnershipDone
    \/ GetPartitionIdsDone
    \/ ClaimOwnershipDone
    \/ FactoryThrows
    \/ CreatePumpOldStopped
    \/ CreatePumpStarted
    \/ DelayDone
    \/ InitializeDone
    \/ ReceiveBatchDone
    \/ ReceiveBatchFail
    \/ ReceiveAfterStop
    \/ ProcessEventsReturn
    \/ ProcessErrorDone
    \/ OwnStopDone
    \/ ReceiverCloseDone
    \/ HandlerCloseDone
    \/ Expire

\* The claimOwnership call of a tick settles, the user factory returning or
\* throwing.
ClaimSettles == ClaimOwnershipDone \/ FactoryThrows

\* The user starts the processor; every call of the control loop, of createPump
\* and of a stop() in flight settles, and the delay ends.
RecoverFairness ==
    /\ WF_vars(Start)
    /\ WF_vars(ListOwnershipDone)
    /\ WF_vars(GetPartitionIdsDone)
    /\ WF_vars(ClaimSettles)
    /\ WF_vars(CreatePumpOldStopped)
    /\ WF_vars(CreatePumpStarted)
    /\ WF_vars(DelayDone)
    /\ WF_vars(InitializeDone)
    /\ WF_vars(ReceiverCloseDone)
    /\ WF_vars(HandlerCloseDone)

SpecRecover == InitRecover /\ [][NextRecover]_vars /\ RecoverFairness

\* ------------------------------------------------------------------ claims

InCreatePump(l) == l.pc \in {"createPump.lock", "createPump.stop", "createPump.start"}

\* The stop() call a pump made on itself, if it is still in flight.
OwnCalls(k, cs) == {c \in cs : c.pump = k /\ c.by.kind = "pump"}

\* C1: in a tick whose claimOwnership returned an empty result (or threw), the
\* user factory is not called and no pump is created: a loop is inside
\* createPump only after a claim that was committed.
C1_NoPumpAfterLostClaim ==
    \A c \in LoopIds : InCreatePump(loops[c]) => loops[c].result = "claimed"

\* C2: for every partition at most one pump is receiving, and while the
\* stop(Shutdown) of a pump being replaced has not settled, the createPump call
\* that waits for it has not constructed the new pump.
C2_OneLivePumpPerPartition ==
    /\ \A p \in Partitions :
         Cardinality({k \in PumpIds : pumps[k].partitionId = p /\ pumps[k].isReceiving}) <= 1
    /\ \A s \in calls :
         s.by.kind = "createPump" =>
            /\ loops[s.by.id].pc = "createPump.stop"
            /\ loops[s.by.id].pump = 0
            /\ \A k \in PumpIds :
                 k > s.pump /\ pumps[k].partitionId = pumps[s.pump].partitionId
                    => ~pumps[k].isReceiving

\* C2 witness: a pump was replaced: a newer pump of the same partition is
\* receiving after createPump stopped the older one.
C2_Witness ==
    \E k1, k2 \in PumpIds :
       /\ k1 < k2
       /\ pumps[k1].partitionId = pumps[k2].partitionId
       /\ pumpOf[pumps[k2].partitionId] = k2
       /\ pumps[k2].isReceiving
       /\ ~pumps[k1].isReceiving

\* C3: when EventProcessor.stop() resolves on a processor that was started and
\* has not been started again since (every loop launched has been cancelled),
\* no pump of the processor is receiving or holds an open reader.
C3_NoPumpAfterStop ==
    [][\A s \in 1..Len(stops) :
          /\ stops[s].pc # "resolved" /\ stops'[s].pc = "resolved"
          /\ loops # <<>>
          /\ \A c \in LoopIds : loops[c].aborted
          => \A k \in 1..Len(pumps') :
                ~pumps'[k].isReceiving /\ pumps'[k].receiver # "open"]_vars

\* C4: the handler's close is invoked at most once over a pump's lifetime,
\* whatever stop calls are made on the pump.
C4_CloseAtMostOnce == \A k \in PumpIds : pumps[k].closes <= 1

IsFatalReceiveError(e) ==
    e \in ReceiveErrors /\ ~e.retryable /\ e.name # "ReceiverDisconnectedError"

\* C5: on a receive error that is neither retryable nor a
\* ReceiverDisconnectedError, processError is called once with it, then the pump
\* stops itself with EventHubException, its handler's close(EventHubException) is
\* called, and no receiveBatch or processEvents call follows.
C5_FatalErrorStopsPump ==
    [][\A k \in PumpIds :
          /\ pumps[k].pc = "processError" /\ IsFatalReceiveError(pumps[k].err)
             /\ pumps'[k].pc # "processError"
                => /\ pumps'[k].pc = "stop"
                   /\ \E c \in OwnCalls(k, calls') : c.reason = EventHubException
          /\ pumps[k].pc \in {"stop", "done"} => pumps'[k].pc \in {"stop", "done"}
          /\ \A c \in OwnCalls(k, calls) :
                /\ c.reason = EventHubException
                /\ pumps[k].handler.close
                /\ c.pc = "receiver.close"
                /\ c \notin calls'
                => /\ [c EXCEPT !.pc = "close"] \in calls'
                   /\ pumps'[k].closes = pumps[k].closes + 1]_vars

\* C6: after processError was called with a retryable receive error, a pump
\* that is still receiving issues another receiveBatch: it does not call
\* processError again, does not stop itself, and neither the reader nor the
\* handler is closed.
C6_RetryableErrorContinues ==
    [][\A k \in PumpIds :
          /\ pumps[k].pc = "processError"
          /\ pumps[k].err \in ReceiveErrors
          /\ pumps[k].err.retryable
          /\ pumps[k].isReceiving
          /\ pumps'[k].pc # "processError"
          => /\ pumps'[k].pc = "receiveBatch"
             /\ pumps'[k].isReceiving
             /\ pumps'[k].receiver = "open"
             /\ pumps'[k].closes = pumps[k].closes
             /\ OwnCalls(k, calls') = {}]_vars

\* C6 witness: processError is in flight with a retryable receive error on a
\* pump that is receiving, with its reader open and its handler not closed.
C6_Witness ==
    \E k \in PumpIds :
       /\ pumps[k].pc = "processError"
       /\ pumps[k].err = Timeout
       /\ pumps[k].isReceiving
       /\ pumps[k].receiver = "open"
       /\ pumps[k].closes = 0

\* C7: after processError was called with a ReceiverDisconnectedError, the pump
\* stops itself with OwnershipLost, whatever the error's retryable flag.
C7_DisconnectedStopsPump ==
    [][\A k \in PumpIds :
          /\ pumps[k].pc = "processError"
          /\ pumps[k].err.name = "ReceiverDisconnectedError"
          /\ pumps'[k].pc # "processError"
          => /\ pumps'[k].pc = "stop"
             /\ \E c \in OwnCalls(k, calls') : c.reason = OwnershipLost]_vars

\* C8: after processError was called with an error thrown by processEvents, a
\* pump that is still receiving issues another receiveBatch and does not stop
\* itself.
C8_ProcessEventsThrowContinues ==
    [][\A k \in PumpIds :
          /\ pumps[k].pc = "processError"
          /\ pumps[k].err \in UserErrors
          /\ pumps[k].isReceiving
          /\ pumps'[k].pc # "processError"
          => /\ pumps'[k].pc = "receiveBatch"
             /\ pumps'[k].isReceiving
             /\ OwnCalls(k, calls') = {}]_vars

\* C9: processEvents is called on a handler that defines initialize only after
\* initialize has returned or thrown, and when initialize settles, by return
\* or by throw, the pump opens its reader and enters the receive loop.
C9_InitializeBeforeProcessEvents ==
    [][\A k \in PumpIds :
          /\ pumps'[k].pc = "processEvents" /\ pumps[k].handler.initialize
                => pumps'[k].initialize = "done"
          /\ pumps[k].pc = "initialize" /\ pumps'[k].pc # "initialize"
                => /\ pumps'[k].initialize = "done"
                   /\ pumps'[k].receiver = "open"
                   /\ pumps'[k].isReceiving => pumps'[k].pc = "receiveBatch"]_vars

\* C9 witness: processEvents is in flight on a handler that defines initialize.
C9_Witness ==
    \E k \in PumpIds :
       /\ pumps[k].handler.initialize
       /\ pumps[k].initialize = "done"
       /\ pumps[k].pc = "processEvents"

\* C10: once the handler's close has been invoked, no processEvents call is
\* in flight and the reader is not open.
C10_CloseAfterProcessEvents ==
    \A k \in PumpIds :
       pumps[k].closes > 0 => pumps[k].pc # "processEvents" /\ pumps[k].receiver # "open"

\* C11: for every partition, at most one processEvents or processError call of
\* the processor's handlers is in flight, also across stop and pump replacement.
C11_NoConcurrentHandlerCalls ==
    \A p \in Partitions :
       Cardinality({k \in PumpIds : /\ pumps[k].partitionId = p
                                    /\ pumps[k].pc \in {"processEvents", "processError"}}) <= 1

\* C12: the events of every non-empty batch handed to processEvents have
\* sequenceNumbers in increasing order, all above every sequenceNumber handed
\* to processEvents before, also after receive errors.
C12_DispatchInOrder ==
    [][\A k \in PumpIds :
          /\ pumps[k].pc # "processEvents"
          /\ pumps'[k].pc = "processEvents"
          => LET batch == pumps'[k].batch IN
             /\ \A i \in 1..Len(batch) : batch[i] > pumps[k].last
             /\ \A i, j \in 1..Len(batch) : i < j => batch[i] < batch[j]]_vars

\* C12 witness: a second event is being dispatched by a pump.
C12_Witness ==
    \E k \in PumpIds :
       /\ pumps[k].pc = "processEvents"
       /\ pumps[k].batch # <<>>
       /\ pumps[k].batch[1] > FirstSequenceNumber(pumps[k].position)

\* The position C17 states for a claim whose previous ownership record carries
\* sequenceNumber n (NoSequenceNumber: none).
StatedPosition(n) ==
    IF n # NoSequenceNumber THEN FromSequenceNumber(n)
    ELSE IF processorOptions.initialEventPosition # NoPosition
         THEN processorOptions.initialEventPosition
         ELSE Earliest

\* C17: the reader of the pump created after a successful claim is opened at
\* fromSequenceNumber(s) when the previous ownership record carries a
\* sequenceNumber s, 0 included; else at the configured initialEventPosition;
\* else at earliest.
C17_ReaderOpenedAtCheckpoint ==
    \A c \in LoopIds :
       /\ loops[c].pc = "createPump.start"
       /\ loops[c].result = "claimed"
       /\ pumps[loops[c].pump].receiver # "none"
       => pumps[loops[c].pump].position = StatedPosition(loops[c].req.sequenceNumber)

\* C13: start() on a running processor has no effect.  While _isRunning is
\* true no step launches a control loop or replaces the AbortController or the
\* loop task, and the step of a start() call that found the processor running
\* changes nothing but the log.
C13_StartOnRunningHasNoEffect ==
    [][isRunning
         => /\ Len(loops') = Len(loops)
            /\ abortController' = abortController
            /\ loopTask' = loopTask
            /\ startsIgnored' # startsIgnored
                 => /\ isRunning'
                    /\ loops' = loops /\ stops' = stops /\ ticks' = ticks
                    /\ ownership' = ownership /\ pumpOf' = pumpOf /\ lock' = lock
                    /\ pumps' = pumps /\ calls' = calls]_vars

\* start() was called on the running processor while its one loop was in a tick.
C13_Witness ==
    /\ startsIgnored >= 1
    /\ isRunning
    /\ Len(loops) = 1
    /\ loops[1].pc \in {"claimOwnership", "createPump.start", "delay"}

\* C14: stop() is idempotent: a stop() call that found the processor not
\* running (a second stop()) does not invoke any handler's close again.  None
\* of the PartitionPump.stop() calls it makes invokes the close of a handler
\* that was closed before.
C14_SecondStopClosesNoHandlerAgain ==
    \A s \in 1..Len(stops) :
       ~stops[s].wasRunning
         => \A c \in RemoveCalls(s) : c.pc = "close" => pumps[c.pump].closes <= 1

\* C15: while the token of a control loop is not cancelled, an exception thrown
\* inside a tick by listOwnership, getPartitionIds, claimOwnership, the user
\* factory or createPump never terminates the loop: a loop that has ended,
\* whatever it caught before, is a loop whose token was cancelled.
C15_ExceptionNeverEndsLoop ==
    \A c \in LoopIds : loops[c].pc = "ended" => loops[c].aborted

\* A loop that caught an exception is in a later tick, its token not cancelled.
C15_Witness ==
    \E c \in LoopIds :
       /\ loops[c].errorLogged
       /\ ~loops[c].aborted
       /\ loops[c].pc = "claimOwnership"

\* C16: every stop() call resolves once the control loop it cancelled has
\* ended, also when start() is called while stop() is awaiting: the loop task
\* that a stop() call on a running processor awaits is a loop whose token was
\* cancelled, so it ends after its tick in progress.
C16_StopAwaitsCancelledLoop ==
    \A s \in 1..Len(stops) :
       /\ stops[s].wasRunning
       /\ stops[s].pc = "loopTask"
       /\ stops[s].loop # 0
       => loops[stops[s].loop].aborted

\* The counts of actively owned partitions a balanced fleet of k has.
Balanced(k) ==
    \A id \in {SelfId, OtherId} :
       OwnedCount(ownership, Partitions, id)
          \in {Cardinality(Partitions) \div k, (Cardinality(Partitions) + k - 1) \div k}

\* Both processors are live, this one waits for its next tick, and no load
\* balancer of the fleet returns a partition for the ownership list as it is.
Quiescent ==
    /\ \E c \in LoopIds : ~loops[c].aborted /\ loops[c].pc = "delay"
    /\ loadBalanceFor(SelfId, ownership, Partitions) = {}
    /\ loadBalanceFor(OtherId, ownership, Partitions) = {}

\* C18: with two live processors, a store that does not fail and no processor
\* joining or leaving, the quiescent state the fleet reaches is balanced: every
\* processor's count of actively owned partitions is floor(n/2) or ceil(n/2).
C18_QuiescentFleetIsBalanced == Quiescent => Balanced(2)

\* The peer processor holds no active ownership: it stopped and its records
\* aged past the inactivity limit.
PeerGone == \A p \in Partitions : ownership[p].ownerId = OtherId => ~ownership[p].active

\* This processor actively owns partition p and a pump of it is receiving.
OwnsAndPumps(p) ==
    /\ IsActive(ownership[p])
    /\ ownership[p].ownerId = SelfId
    /\ pumpOf[p] # 0
    /\ pumps[pumpOf[p]].isReceiving

OwnedBySelf == {p \in Partitions : IsActive(ownership[p]) /\ ownership[p].ownerId = SelfId}

\* After its t-th tick the lone processor owns and pumps min(t, n) partitions.
LoneOwnsAfterTicks ==
    \A c \in LoopIds :
       ~loops[c].aborted /\ loops[c].pc = "delay"
         => /\ Cardinality(OwnedBySelf) =
                 (IF ticks < Cardinality(Partitions) THEN ticks ELSE Cardinality(Partitions))
            /\ \A p \in OwnedBySelf : pumpOf[p] # 0 /\ pumps[pumpOf[p]].isReceiving

\* A stop() call that found a pump stored for every partition has, when it
\* resolves, closed every reader and called close(Shutdown) once on the handler
\* of every partition.
LoneStopClosesEachOnce ==
    \A s \in 1..Len(stops) :
       /\ stops[s].pc = "resolved"
       /\ {pumps[k].partitionId : k \in stops[s].removing} = Partitions
       => /\ \A k \in PumpIds :
               /\ ~pumps[k].isReceiving
               /\ pumps[k].receiver = "closed"
               /\ pumps[k].closes = 1
          /\ \A p \in Partitions : Cardinality({k \in PumpIds : pumps[k].partitionId = p}) = 1

\* C20: a lone processor with n partitions and an empty store owns all n
\* partitions after at most n ticks, one more after each tick; unless stop() is
\* called first, the handler of each partition gets a processEvents call; and a
\* stop() called once every partition is pumped causes exactly one
\* close(Shutdown) per partition.
C20_LoneProcessor ==
    /\ []LoneOwnsAfterTicks
    /\ []LoneStopClosesEachOnce
    /\ [](\A c \in calls : c.reason = Shutdown)
    /\ \A p \in PartitionIdsOf(LonePartitions) :
          <>(\/ Len(stops) > 0
             \/ \E k \in PumpIds : pumps[k].partitionId = p /\ pumps[k].pc = "processEvents")

\* stop() has resolved after it found every partition pumped, and every
\* handler's close was called.
C20_Witness ==
    /\ \E s \in 1..Len(stops) :
          /\ stops[s].pc = "resolved"
          /\ {pumps[k].partitionId : k \in stops[s].removing} = Partitions
    /\ \A k \in PumpIds : pumps[k].closes = 1
    /\ ticks = Cardinality(Partitions)

\* C21: every broker reader a pump opened is closed on every exit path: while a
\* stop() call of a pump has resolved, no reader of that pump is open, also
\* when stop() was called while initialize was running.
C21_ReaderClosedAfterStop ==
    \A c \in calls : c.pc = "resolved" => pumps[c.pump].receiver # "open"

\* C22: the cancellation error of a receiveBatch that the pump's stop() aborted
\* is never passed to processError, and a receiveBatch that settles after
\* _isReceiving became false ends the receive loop without a call of the
\* handler.
C22_CancellationNotAnError ==
    /\ [](\A k \in PumpIds : pumps[k].pc = "processError" => pumps[k].err # AbortError)
    /\ [][\A k \in PumpIds :
            /\ pumps[k].pc = "receiveBatch"
            /\ ~pumps[k].isReceiving
            /\ pumps'[k].pc # "receiveBatch"
            => pumps'[k].pc = "done"]_vars

\* stop() has closed the reader and aborted the signal while a receiveBatch of
\* the pump is in flight.
C22_Witness ==
    \E k \in PumpIds :
       /\ pumps[k].pc = "receiveBatch"
       /\ ~pumps[k].isReceiving
       /\ pumps[k].aborted

\* C23: each tick of the control loop issues at most one claimOwnership call,
\* which carries one ownership request, so the processor gains at most one
\* partition and creates at most one pump per tick: no tick has issued two
\* calls, and neither the pumps constructed nor the claims this processor
\* committed outnumber the ticks begun.
C23_OneClaimPerTick ==
    /\ \A c \in LoopIds :
          /\ loops[c].claims <= 1
          /\ loops[c].pc = "claimOwnership" => loops[c].req.partitionId \in Partitions
    /\ Len(pumps) <= ticks
    /\ eTagCounter - otherWrites <= ticks

\* A tick has claimed a partition and is creating its pump while the load
\* balancer would return another partition.
C23_Witness ==
    \E c \in LoopIds :
       /\ loops[c].pc = "createPump.start"
       /\ loops[c].claims = 1
       /\ loadBalance(ownership, Partitions) # {}

\* C24: the ownership request a tick builds for its target has ownerId = this
\* processor's id, ownerLevel = 0 and partitionId = the target the load balancer
\* returned, and its offset, sequenceNumber and eTag are those of the target's
\* record in the ownership list the tick read, or all absent when the list has
\* no record of the target.
C24_OwnershipRequest ==
    [][\A c \in LoopIds :
          /\ loops[c].pc = "getPartitionIds"
          /\ loops'[c].pc = "claimOwnership"
          => LET req == loops'[c].req
                 previous == loops[c].snap[req.partitionId]
             IN  /\ req.ownerId = SelfId
                 /\ req.ownerLevel = 0
                 /\ req.partitionId \in loadBalance(loops[c].snap, Partitions)
                 /\ IF previous # NoOwnership
                    THEN /\ req.offset = previous.offset
                         /\ req.sequenceNumber = previous.sequenceNumber
                         /\ req.eTag = previous.eTag
                    ELSE /\ req.offset = NoOffset
                         /\ req.sequenceNumber = NoSequenceNumber
                         /\ req.eTag = 0]_vars

\* A request was built for a partition whose record another processor had
\* written with a checkpoint.
C24_Witness ==
    \E c \in LoopIds :
       /\ loops[c].pc = "claimOwnership"
       /\ loops[c].req.eTag # 0
       /\ loops[c].req.sequenceNumber # NoSequenceNumber
       /\ loops[c].req.offset = OffsetOf(loops[c].req.sequenceNumber)

\* C25: once stop(reason) has been called on a pump, the pump never again calls
\* processEvents or issues a receiveBatch, whichever await was in flight: a
\* pump whose _isReceiving is false stays so, and no step takes it to a
\* processEvents call or to a receiveBatch call.
C25_StoppedPumpIsTerminal ==
    [][\A k \in PumpIds :
          ~pumps[k].isReceiving
          => /\ ~pumps'[k].isReceiving
             /\ pumps'[k].pc # pumps[k].pc
                  => pumps'[k].pc \notin {"receiveBatch", "processEvents"}]_vars

\* stop() was called on a pump while its processEvents call was in flight.
C25_Witness ==
    \E k \in PumpIds :
       /\ ~pumps[k].isReceiving
       /\ pumps[k].pc = "processEvents"

\* C26: a pump that stopped itself after a fatal or ownership-lost receive
\* error has removed itself from the PumpManager: once the stop() call the pump
\* made on itself has resolved, after its handler's close(reason), the
\* PumpManager holds no entry for that pump under its partitionId.
C26_SelfStoppedPumpRemoved ==
    \A c \in calls :
       c.by.kind = "pump" /\ c.pc = "resolved" /\ pumps[c.pump].closes > 0
         => pumpOf[pumps[c.pump].partitionId] # c.pump

\* C27: a tick whose token is cancelled while it awaits listOwnership or
\* getPartitionIds issues no claimOwnership call and creates no pump, and the
\* loop returns: from listOwnership it only goes on to getPartitionIds or ends,
\* from getPartitionIds it only ends, with no claim request made.
C27_CancelledTickClaimsNothing ==
    [][\A c \in LoopIds :
          loops[c].aborted /\ loops[c].pc \in {"listOwnership", "getPartitionIds"}
          => /\ loops'[c].pc \in {loops[c].pc, "getPartitionIds", "ended"}
             /\ loops[c].pc = "getPartitionIds" => loops'[c].pc # "listOwnership"
             /\ loops'[c].claims = 0
             /\ loops'[c].req = NoRequest
             /\ loops'[c].pump = 0]_vars

\* A tick awaits getPartitionIds with its token cancelled, and the list it read
\* would have load balancing return a partition to claim.
C27_Witness ==
    \E c \in LoopIds :
       /\ loops[c].aborted
       /\ loops[c].pc = "getPartitionIds"
       /\ loadBalance(loops[c].snap, Partitions) # {}

\* C28: an exception thrown by the handler's close(reason), or by the close of
\* the reader, is swallowed by the pump: no stop() call on a pump rejects, and a
\* stop() call that has settled leaves the in-flight receive cancelled.
C28_StopSwallowsCloseErrors ==
    \A c \in calls :
       /\ c.pc # "rejected"
       /\ c.pc = "resolved" => pumps[c.pump].aborted

\* C29: EventProcessor.stop() never rejects: an error raised by removeAllPumps
\* is logged and stop() still resolves, and every call of stop() leaves the
\* processor marked not running.
C29_StopNeverRejects ==
    /\ [](\A s \in 1..Len(stops) :
            /\ stops[s].pc # "rejected"
            /\ stops[s].errorLogged => stops[s].pc = "resolved")
    /\ [][Len(stops') > Len(stops) => ~isRunning']_vars

\* A stop() whose removeAllPumps rejected has logged the error and resolved.
C29_Witness ==
    \E s \in 1..Len(stops) :
       /\ stops[s].wasRunning
       /\ stops[s].errorLogged
       /\ stops[s].pc = "resolved"

\* The quantities of the load-balancing rule, for the list snap and the ids.
ActiveOf(snap, ids, o) ==
    {p \in ids : snap[p] # NoOwnership /\ snap[p].active /\ snap[p].ownerId = o}

OwnersIn(snap, ids) == {o \in StoreOwners : ActiveOf(snap, ids, o) # {}}

ActiveOwnersIn(snap, ids) == Cardinality(OwnersIn(snap, ids) \cup {SelfId})

MinPer(snap, ids) == Cardinality(ids) \div ActiveOwnersIn(snap, ids)

Extras(snap, ids) == Cardinality(ids) % ActiveOwnersIn(snap, ids)

\* selfCount > minPer, or selfCount = minPer and the owners holding minPer+1
\* are at least extras.
AtShare(snap, ids) ==
    LET selfCount == Cardinality(ActiveOf(snap, ids, SelfId))
        holders == {o \in OwnersIn(snap, ids) :
                      Cardinality(ActiveOf(snap, ids, o)) = MinPer(snap, ids) + 1}
    IN  \/ selfCount > MinPer(snap, ids)
        \/ selfCount = MinPer(snap, ids) /\ Cardinality(holders) >= Extras(snap, ids)

\* The candidate sets A, B and C together.
Candidates(snap, ids) ==
    {p \in ids :
       \/ snap[p] = NoOwnership
       \/ ~snap[p].active
       \/ Cardinality(ActiveOf(snap, ids, snap[p].ownerId)) > MinPer(snap, ids) + 1}

CandidateA(snap, ids) == {p \in ids : snap[p] = NoOwnership}

CandidateB(snap, ids) == {p \in ids : snap[p] # NoOwnership /\ ~snap[p].active}

CandidateC(snap, ids) ==
    {p \in ids : /\ snap[p] # NoOwnership
                 /\ snap[p].active
                 /\ Cardinality(ActiveOf(snap, ids, snap[p].ownerId)) > MinPer(snap, ids) + 1}

\* C31: a partition loadBalance returns belongs to the highest-priority
\* non-empty candidate set: an unowned one (A) whenever one exists, otherwise
\* one with inactive ownership (B) whenever one exists, otherwise one of an
\* owner whose active count exceeds minPer+1 (C); none is stolen from an active
\* owner while an unowned or abandoned partition exists.
C31_HighestPriorityCandidate ==
    [][\A c \in LoopIds :
          loops[c].pc = "getPartitionIds" /\ loops'[c].pc = "claimOwnership"
          => LET snap == loops[c].snap
                 target == loops'[c].req.partitionId
             IN  IF CandidateA(snap, Partitions) # {}
                 THEN target \in CandidateA(snap, Partitions)
                 ELSE IF CandidateB(snap, Partitions) # {}
                 THEN target \in CandidateB(snap, Partitions)
                 ELSE target \in CandidateC(snap, Partitions)]_vars

\* A tick claims an abandoned partition while no partition is unowned and an
\* owner above minPer+1 could have been stolen from.
C31_Witness ==
    \E c \in LoopIds :
       /\ loops[c].pc = "claimOwnership"
       /\ CandidateA(ownership, Partitions) = {}
       /\ CandidateC(ownership, Partitions) # {}
       /\ loops[c].req.partitionId \in CandidateB(ownership, Partitions)

\* C32: when listOwnership returned no records and getPartitionIds returns a
\* non-empty list, the tick issues a claim for exactly one partition of that
\* list: it goes from getPartitionIds to its one claimOwnership call, whose
\* request names a partition of the event hub and no previous owner.
C32_EmptyStoreClaimsOne ==
    [][\A c \in LoopIds :
          /\ loops[c].pc = "getPartitionIds"
          /\ ~loops[c].aborted
          /\ loops[c].snap = NoSnapshot
          /\ loops'[c].pc # "getPartitionIds"
          => /\ loops'[c].pc = "claimOwnership"
             /\ loops'[c].claims = 1
             /\ loops'[c].req.partitionId \in Partitions
             /\ loops'[c].req.ownerId = SelfId
             /\ loops'[c].req.eTag = 0]_vars

\* The first tick of a processor on an empty store of an event hub with several
\* partitions has issued its claim.
C32_Witness ==
    \E c \in LoopIds :
       /\ loops[c].pc = "claimOwnership"
       /\ loops[c].claims = 1
       /\ ticks = 1
       /\ ownership = NoSnapshot
       /\ Cardinality(Partitions) > 1

\* C33: when getPartitionIds returns an empty list, the tick issues no
\* claimOwnership call and creates no pump, and the loop still sleeps and runs
\* the next tick: the tick goes from getPartitionIds to its delay with no claim
\* made and no pump constructed, and from that delay the loop goes on to the
\* listOwnership call of the next tick unless its token is cancelled.
C33_NoPartitionsNoClaim ==
    [][\A c \in LoopIds :
          /\ /\ loops[c].pc = "getPartitionIds"
             /\ ~loops[c].aborted
             /\ loops'[c].partitionIds = <<{}>>
             => /\ loops'[c].pc = "delay"
                /\ loops'[c].claims = 0
                /\ loops'[c].req = NoRequest
                /\ loops'[c].pump = 0
                /\ pumps' = pumps
                /\ pumpOf' = pumpOf
                /\ ownership' = ownership
          /\ /\ loops[c].pc = "delay"
             /\ loops[c].partitionIds = <<{}>>
             /\ loops'[c].pc # "delay"
             => loops'[c].pc = IF loops[c].aborted THEN "ended" ELSE "listOwnership"]_vars

\* A tick whose getPartitionIds returned an empty list is in its delay, its
\* token not cancelled and a next tick to come.
C33_Witness ==
    \E c \in LoopIds :
       /\ loops[c].pc = "delay"
       /\ loops[c].partitionIds = <<{}>>
       /\ ~loops[c].aborted
       /\ ticks < limit.ticks

\* C34: between two consecutive listOwnership calls of one control loop the
\* loop waits the inter-tick delay, also when the earlier tick ended with an
\* exception: a control loop begins a further tick only from its delay.
C34_DelayBetweenTicks ==
    [][ticks' = ticks + 1 /\ Len(loops') = Len(loops)
         => \E c \in LoopIds : /\ loops[c].pc = "delay"
                               /\ loops'[c].pc = "listOwnership"]_vars

\* C35: for every interleaving of start() and stop() calls on one
\* EventProcessor, at most one control-loop task is active at any time: all
\* loops but one have ended.
C35_OneActiveLoop ==
    Cardinality({c \in LoopIds : loops[c].pc # "ended"}) <= 1

\* C36: a running processor never issues a claim for a partition for which it
\* has a live (receiving) pump, however old the ownership record is: no tick
\* goes to claimOwnership with a request for a partition whose stored pump is
\* receiving.
C36_NoClaimForPumpedPartition ==
    [][\A c \in LoopIds :
          /\ isRunning
          /\ loops[c].pc = "getPartitionIds"
          /\ loops'[c].pc = "claimOwnership"
          => LET k == pumpOf[loops'[c].req.partitionId]
             IN  k # 0 => ~pumps[k].isReceiving]_vars

\* C37: loadBalance never returns a partition whose ownership record is active
\* and owned by the calling processor: the partition of every claim a tick
\* issues is unowned, abandoned, or actively owned by a different owner.
C37_NeverOwnActivePartition ==
    [][\A c \in LoopIds :
          loops[c].pc = "getPartitionIds" /\ loops'[c].pc = "claimOwnership"
          => LET previous == loops[c].snap[loops'[c].req.partitionId]
             IN  \/ previous = NoOwnership
                 \/ ~previous.active
                 \/ previous.ownerId # SelfId]_vars

\* A tick claims a partition while this processor holds active records of more
\* than one partition.
C37_Witness ==
    \E c \in LoopIds :
       /\ loops[c].pc = "claimOwnership"
       /\ Cardinality(ActiveOf(ownership, Partitions, SelfId)) > 1

\* Partition p has a live pump: a pump of p that is receiving.
LivePump(p) == \E k \in PumpIds : pumps[k].partitionId = p /\ pumps[k].isReceiving

\* Partition p is owned in the store and unprocessed, its record has grown old,
\* and the running processor has a tick and a pump to come.
OwnedUnprocessed(p) ==
    /\ isRunning
    /\ ownership[p] # NoOwnership
    /\ ~ownership[p].active
    /\ ~LivePump(p)
    /\ ticks < limit.ticks
    /\ Len(pumps) < limit.pumps

\* The record of partition p, written e times before, was claimed again, and
\* no createPump call is in progress: unless the partition has a live pump, the
\* user factory or createPump failed once more.
ClaimedAgain(p, e) ==
    /\ ownership[p].eTag > e
    /\ \A c \in LoopIds : ~InCreatePump(loops[c])

C39_ReceivingPumpHasReader ==
    \A k \in PumpIds :
       pumps[k].isReceiving /\ pumps[k].initialize # "running"
         => /\ pumps[k].receiver = "open"
            /\ pumps[k].pc \in {"receiveBatch", "processEvents", "processError"}

====
